---- MODULE Spec2Model ----
(***************************************************************************)
(* inventory-hub: the Groups, Tags, Supplies and Dashboard pages and the   *)
(* relational store they talk to.  Every page handler is a sequence of     *)
(* backend requests; each request is one atomic step at the store, and     *)
(* the steps of different sessions (one per user and page) interleave.     *)
(***************************************************************************)
EXTENDS Integers, FiniteSets, Sequences, TLC

\* ------------------------------------------------------------------ bounds
MaxGroups == 2
MaxTags == 2
MaxSupplies == 2

Users == {"u1", "u2"}
Names == {"", "n"}

\* '' in a form field that holds an id, and SQL NULL in a stored column
Empty == 0
Null == -1

\* user of useAuth() when nobody is signed in, and user?.id then
NoUser == "null"
Undefined == "undefined"

GroupIds == 1..MaxGroups
TagIds == 1..MaxTags
SupplyIds == 1..MaxSupplies

\* the numeric fields a supplies form can be submitted with
ZeroValues == [quantity |-> 0, cost |-> 0, sale_price |-> 0, market_price |-> 0]
ValueSets ==
    { ZeroValues,
      [quantity |-> 2, cost |-> 10, sale_price |-> 15, market_price |-> 12],
      [quantity |-> 4, cost |-> 5, sale_price |-> 3, market_price |-> 0] }

\* numeric fields the form state holds after a negative quantity and a
\* negative cost were typed
NegativeValues == [quantity |-> -1, cost |-> -2, sale_price |-> 0, market_price |-> 0]
FormValues == { ZeroValues, NegativeValues }

VARIABLES
    \* the store: relations groups, user_groups, tags, supplies
    groups, user_groups, tags, supplies,
    nextGroupId, nextTagId, nextSupplyId,
    \* the variant of the notification the last step raised
    toast,
    \* Groups page: handleSubmit's position and request, the loaded list
    gPc, gReq, gIsSubmitting, gGroups,
    \* Tags page
    tPc, tReq, tIsSubmitting, tGroups, tTags,
    \* Supplies page: lists, selector state, form, handlers in flight
    sGroups, sGroups0, sTags, sSupplies, selectedGroup, sTagLoads,
    sIsDialogOpen, editingId, fGroupId, fTagId,
    sPc, sReq, sIsSubmitting, sLoadPc, sLoadGroupIds,
    \* Dashboard page
    dPc, dGroupIds, dSupplies, dGroupsCount, stats,
    \* useAuth() in each user's browser, and the route its router is on
    user, loading, location

dbVars == <<groups, user_groups, tags, supplies, nextGroupId, nextTagId, nextSupplyId>>
gVars == <<gPc, gReq, gIsSubmitting, gGroups>>
tVars == <<tPc, tReq, tIsSubmitting, tGroups, tTags>>
sListVars == <<sGroups, sGroups0, sTags, sSupplies, selectedGroup, sTagLoads>>
sFormVars == <<sIsDialogOpen, editingId, fGroupId, fTagId>>
sSubmitVars == <<sPc, sReq, sIsSubmitting>>
sLoadVars == <<sLoadPc, sLoadGroupIds>>
sVars == <<sListVars, sFormVars, sSubmitVars, sLoadVars>>
dVars == <<dPc, dGroupIds, dSupplies, dGroupsCount, stats>>
aVars == <<user, loading, location>>
vars == <<dbVars, toast, gVars, tVars, sVars, dVars, aVars>>

\* user?.id
UserId(u) == IF user[u] = NoUser THEN Undefined ELSE user[u]

\* toast({..., variant}) as the step just taken called it: every catch block
\* passes variant 'destructive', every success path passes none
NoToast == "none"
Default == "default"
Destructive == "destructive"

\* the elements of a list, and the orders a query without an order clause
\* can return the rows S in
Range(seq) == { seq[i] : i \in 1..Len(seq) }
OrderingsOf(S) == { seq \in [1..Cardinality(S) -> S] : Range(seq) = S }

\* ------------------------------------------------------- the store (backend)
GroupExists(gid) == \E g \in groups : g.id = gid
TagExists(tid) == \E t \in tags : t.id = tid
SupplyExists(sid) == \E s \in supplies : s.id = sid

IsMember(gid, u) == \E m \in user_groups : m.user_id = u /\ m.group_id = gid
GroupsFor(u) == { m.group_id : m \in { x \in user_groups : x.user_id = u } }

\* a store that accepts any group id in a foreign key
FkGroupUnchecked(gid) == TRUE

\* foreign keys of the relations
FkGroup(gid) == GroupExists(gid)
FkTag(tid) == tid = Null \/ TagExists(tid)

\* a store whose delete of a group leaves the group's tags in place
TagsKeptAfterGroupDelete(gid) == tags

\* delete from groups where id = gid, with the cascade to the owned rows
GroupsAfterDelete(gid) == { g \in groups : g.id # gid }
TagsAfterGroupDelete(gid) == { t \in tags : t.group_id # gid }
SuppliesAfterGroupDelete(gid) == { s \in supplies : s.group_id # gid }
MembersAfterGroupDelete(gid) == { m \in user_groups : m.group_id # gid }

\* ------------------------------------------------------------- Groups page
\* The dialog of this page only shows and hides the form: it can be opened in
\* every state, so it is not part of the state.
NoReq == [name |-> "", id |-> Empty, user_id |-> Undefined]

\* loadGroups: groups inner-joined with the caller's user_groups rows.  It is
\* started by the [user] effect and after every successful write.
GroupsLoadGroupsResult(u) == { g \in groups : IsMember(g.id, u) }

GroupsLoadGroups(u) ==
    /\ \E ok \in BOOLEAN :
        IF ok
        THEN /\ gGroups' = [gGroups EXCEPT ![u] = GroupsLoadGroupsResult(u)]
             /\ toast' = NoToast
        ELSE /\ toast' = Destructive
             /\ UNCHANGED gGroups
    /\ UNCHANGED <<dbVars, gPc, gReq, gIsSubmitting, tVars, sVars, dVars, aVars>>

\* handleSubmit up to its first await: the form's name goes into the request,
\* with user?.id of the user its render saw
GroupsSubmitStart(u, name) ==
    /\ ~gIsSubmitting[u]
    /\ gPc[u] = "idle"
    /\ nextGroupId <= MaxGroups
    /\ gIsSubmitting' = [gIsSubmitting EXCEPT ![u] = TRUE]
    /\ gReq' = [gReq EXCEPT ![u] = [name |-> name, id |-> Empty, user_id |-> UserId(u)]]
    /\ gPc' = [gPc EXCEPT ![u] = "insertGroup"]
    /\ toast' = NoToast
    /\ UNCHANGED <<dbVars, gGroups, tVars, sVars, dVars, aVars>>

\* a catch block with no finally after it: isSubmitting stays as it is
GroupsSubmitFailedNoFinally(u) ==
    /\ toast' = Destructive
    /\ gPc' = [gPc EXCEPT ![u] = "idle"]
    /\ gReq' = [gReq EXCEPT ![u] = NoReq]
    /\ UNCHANGED <<gIsSubmitting, gGroups>>

\* the catch and finally blocks of handleSubmit
GroupsSubmitFailed(u) ==
    /\ toast' = Destructive
    /\ gIsSubmitting' = [gIsSubmitting EXCEPT ![u] = FALSE]
    /\ gPc' = [gPc EXCEPT ![u] = "idle"]
    /\ gReq' = [gReq EXCEPT ![u] = NoReq]
    /\ UNCHANGED gGroups

\* first request: insert into groups ... select().single()
GroupsInsertGroup(u) ==
    /\ gPc[u] = "insertGroup"
    /\ nextGroupId <= MaxGroups
    /\ \E ok \in BOOLEAN :
        IF ok
        THEN /\ groups' = groups \cup
                    {[id |-> nextGroupId, name |-> gReq[u].name,
                      created_by |-> gReq[u].user_id]}
             /\ nextGroupId' = nextGroupId + 1
             /\ gReq' = [gReq EXCEPT ![u].id = nextGroupId]
             /\ gPc' = [gPc EXCEPT ![u] = "insertMember"]
             /\ toast' = NoToast
             /\ UNCHANGED <<gIsSubmitting, gGroups>>
        ELSE /\ GroupsSubmitFailed(u)
             /\ UNCHANGED <<groups, nextGroupId>>
    /\ UNCHANGED <<user_groups, tags, supplies, nextTagId, nextSupplyId,
                   tVars, sVars, dVars, aVars>>

\* a membership for the first group the user already belongs to
GroupsMemberOfFirstGroup(u, req) ==
    [user_id |-> u,
     group_id |-> IF GroupsFor(u) = {} THEN req.id
                  ELSE CHOOSE g \in GroupsFor(u) : \A h \in GroupsFor(u) : g <= h,
     role |-> "admin"]

\* the membership handleSubmit inserts: (user.id, group.id, 'admin') for the
\* group its first request returned
GroupsMemberRow(u, req) ==
    [user_id |-> req.user_id, group_id |-> req.id, role |-> "admin"]

\* user_groups holds one row per insert: rows of the same pair and role are
\* told apart by seq, their number among the rows of the pair
StoredMember(m) ==
    [user_id |-> m.user_id, group_id |-> m.group_id, role |-> m.role,
     seq |-> 1 + Cardinality({ x \in user_groups :
                    x.user_id = m.user_id /\ x.group_id = m.group_id })]

\* second request: insert into user_groups (user, group.id, 'admin')
GroupsInsertMember(u) ==
    /\ gPc[u] = "insertMember"
    /\ \E ok \in BOOLEAN :
        IF ok /\ FkGroup(GroupsMemberRow(u, gReq[u]).group_id)
        THEN /\ user_groups' = user_groups \cup {StoredMember(GroupsMemberRow(u, gReq[u]))}
             /\ toast' = Default
             /\ gIsSubmitting' = [gIsSubmitting EXCEPT ![u] = FALSE]
             /\ gPc' = [gPc EXCEPT ![u] = "idle"]
             /\ gReq' = [gReq EXCEPT ![u] = NoReq]
             /\ UNCHANGED gGroups
        ELSE /\ GroupsSubmitFailed(u)
             /\ UNCHANGED user_groups
    /\ UNCHANGED <<groups, tags, supplies, nextGroupId, nextTagId, nextSupplyId,
                   tVars, sVars, dVars, aVars>>

\* the delete button is rendered for the loaded groups the user created
DeleteButtonRendered(u, gid) ==
    \E g \in gGroups[u] : g.id = gid /\ g.created_by = u

\* handleDelete(groupId): delete from groups where id = groupId
GroupsHandleDelete(u, gid) ==
    /\ \E ok \in BOOLEAN :
        IF ok
        THEN /\ groups' = GroupsAfterDelete(gid)
             /\ tags' = TagsAfterGroupDelete(gid)
             /\ supplies' = SuppliesAfterGroupDelete(gid)
             /\ user_groups' = MembersAfterGroupDelete(gid)
             /\ toast' = Default
        ELSE /\ toast' = Destructive
             /\ UNCHANGED <<groups, tags, supplies, user_groups>>
    /\ UNCHANGED <<nextGroupId, nextTagId, nextSupplyId, gVars, tVars, sVars, dVars, aVars>>

\* --------------------------------------------------------------- Tags page
\* formData.name and formData.group_id are whatever the inputs hold when the
\* form is submitted: a typed name, and '' or an entry of the group selector.
DefaultColor == "#3B82F6"
NoTagReq == [name |-> "", group_id |-> Empty, created_by |-> Undefined]

\* loadGroups: select id, name from groups.  The filter names user_groups,
\* which the select does not embed, so it removes no row of groups.
TagsLoadGroupsResult(u) == { g.id : g \in groups }

TagsLoadGroups(u) ==
    /\ \E ok \in BOOLEAN :
        IF ok
        THEN /\ tGroups' = [tGroups EXCEPT ![u] = TagsLoadGroupsResult(u)]
             /\ toast' = NoToast
        ELSE /\ toast' = Destructive
             /\ UNCHANGED tGroups
    /\ UNCHANGED <<dbVars, gVars, tPc, tReq, tIsSubmitting, tTags, sVars, dVars, aVars>>

\* loadTags: select *, groups(name) from tags, with no filter and no order
\* clause: the rows come in an order the store chooses
TagRow(t) == [id |-> t.id, group_id |-> t.group_id]
TagsLoadTagsResult(u) == OrderingsOf({ TagRow(t) : t \in tags })

TagsLoadTags(u) ==
    /\ \E ok \in BOOLEAN :
        IF ok
        THEN /\ \E rows \in TagsLoadTagsResult(u) : tTags' = [tTags EXCEPT ![u] = rows]
             /\ toast' = NoToast
        ELSE /\ toast' = Destructive
             /\ UNCHANGED tTags
    /\ UNCHANGED <<dbVars, gVars, tPc, tReq, tIsSubmitting, tGroups, sVars, dVars, aVars>>

\* the buttons that open the form are enabled when groups.length > 0
TagsFormReachable(u) == tGroups[u] # {}

TagsCanSubmit(u, gid) ==
    /\ TagsFormReachable(u)
    /\ gid \in tGroups[u] \cup {Empty}
    /\ ~tIsSubmitting[u]
    /\ tPc[u] = "idle"
    /\ nextTagId <= MaxTags

\* the insert handleSubmit builds: the form's name and group_id, and user?.id
\* of the user its render saw
TagsRequestOf(u, gid, name) == [name |-> name, group_id |-> gid, created_by |-> UserId(u)]

\* handleSubmit up to its await
TagsSubmitStart(u, gid, name) ==
    /\ TagsCanSubmit(u, gid)
    /\ tIsSubmitting' = [tIsSubmitting EXCEPT ![u] = TRUE]
    /\ tReq' = [tReq EXCEPT ![u] = TagsRequestOf(u, gid, name)]
    /\ tPc' = [tPc EXCEPT ![u] = "insert"]
    /\ toast' = NoToast
    /\ UNCHANGED <<dbVars, gVars, tGroups, tTags, sVars, dVars, aVars>>

\* the row handleSubmit inserts into tags
TagsInsertRow(u, req) ==
    [id |-> nextTagId, name |-> req.name, color |-> DefaultColor,
     group_id |-> req.group_id, created_by |-> req.created_by]

\* the request req of handleSubmit at the store, and what follows it
TagsSubmitEffect(u, req) ==
    /\ nextTagId <= MaxTags
    /\ \E ok \in BOOLEAN :
        IF ok /\ FkGroup(TagsInsertRow(u, req).group_id)
        THEN /\ tags' = tags \cup {TagsInsertRow(u, req)}
             /\ nextTagId' = nextTagId + 1
             /\ toast' = Default
        ELSE /\ toast' = Destructive
             /\ UNCHANGED <<tags, nextTagId>>
    /\ UNCHANGED <<groups, user_groups, supplies, nextGroupId, nextSupplyId,
                   gVars, tGroups, tTags, sVars, dVars, aVars>>

\* handleSubmit from its await on
TagsSubmitInsert(u) ==
    /\ tPc[u] = "insert"
    /\ TagsSubmitEffect(u, tReq[u])
    /\ tIsSubmitting' = [tIsSubmitting EXCEPT ![u] = FALSE]
    /\ tPc' = [tPc EXCEPT ![u] = "idle"]
    /\ tReq' = [tReq EXCEPT ![u] = NoTagReq]

\* handleSubmit with no other step of its page between start and response
TagsHandleSubmit(u, gid, name) ==
    /\ TagsCanSubmit(u, gid)
    /\ TagsSubmitEffect(u, TagsRequestOf(u, gid, name))
    /\ UNCHANGED <<tPc, tReq, tIsSubmitting>>

\* a delete request that only matches tags of the caller's groups
TagsDeleteFilterForMember(u, t, tid) == t.id = tid /\ IsMember(t.group_id, u)

\* the rows the request of handleDelete(tagId) removes: .eq('id', tagId)
TagsDeleteFilter(u, t, tid) == t.id = tid

\* a supply that references a deleted tag: the foreign key of supplies.tag_id
\* either refuses the delete or clears the reference
SuppliesReferencing(tid) == { s \in supplies : s.tag_id = tid }
SuppliesAfterTagDelete(tid) ==
    { IF s.tag_id = tid THEN [s EXCEPT !.tag_id = Null] ELSE s : s \in supplies }

\* handleDelete(tagId): confirm(), then delete from tags where id = tagId.  A
\* delete that matches no row is no error.
TagsHandleDelete(u, tid) ==
    /\ \E confirmed \in BOOLEAN :
        IF ~confirmed
        THEN /\ toast' = NoToast
             /\ UNCHANGED <<tags, supplies>>
        ELSE \E ok \in BOOLEAN, refused \in BOOLEAN :
            LET deleted == { t \in tags : TagsDeleteFilter(u, t, tid) } IN
            IF ok /\ ~(refused /\ \E t \in deleted : SuppliesReferencing(t.id) # {})
            THEN /\ tags' = tags \ deleted
                 /\ supplies' = IF deleted = {} THEN supplies ELSE SuppliesAfterTagDelete(tid)
                 /\ toast' = Default
            ELSE /\ toast' = Destructive
                 /\ UNCHANGED <<tags, supplies>>
    /\ UNCHANGED <<groups, user_groups, nextGroupId, nextTagId, nextSupplyId,
                   gVars, tVars, sVars, dVars, aVars>>

\* ----------------------------------------------------------- Supplies page
\* formData.name and the four numeric fields are whatever the inputs hold when
\* the request is built; tag_id, group_id, editingId and the dialog are state.
OrNull(x) == IF x = Empty THEN Null ELSE x
OrEmpty(x) == IF x = Null THEN Empty ELSE x

NoSupplyReq == [kind |-> "none", id |-> Null, tag_id |-> Null, group_id |-> Empty,
                groups0 |-> Empty]

\* loadTags(groupId): select * from tags where group_id = groupId
SuppliesLoadTagsResult(gid) == { t.id : t \in { x \in tags : x.group_id = gid } }

\* the response of loadTags(gid)
SuppliesLoadTagsResponse(u, gid) ==
    \E ok \in BOOLEAN :
        IF ok
        THEN /\ sTags' = [sTags EXCEPT ![u] = SuppliesLoadTagsResult(gid)]
             /\ toast' = NoToast
        ELSE /\ toast' = Destructive
             /\ UNCHANGED sTags

\* setSelectedGroup(g) and the effect on [selectedGroup]: a change to a
\* non-empty value calls loadTags(g).  Its request stays in flight (inFlight),
\* or is answered before any other step is taken.
SetSelectedGroup(u, g, inFlight) ==
    /\ selectedGroup' = [selectedGroup EXCEPT ![u] = g]
    /\ IF g = selectedGroup[u] \/ g = Empty
       THEN /\ toast' = NoToast
            /\ UNCHANGED <<sTags, sTagLoads>>
       ELSE IF inFlight
            THEN /\ sTagLoads' = [sTagLoads EXCEPT ![u] = @ \cup {g}]
                 /\ toast' = NoToast
                 /\ UNCHANGED sTags
            ELSE /\ SuppliesLoadTagsResponse(u, g)
                 /\ UNCHANGED sTagLoads

\* loadGroups: the groups embedded in the caller's user_groups rows; the rows
\* come in no stated order, so groupsData[0] is any of them
SuppliesLoadGroupsResult(u) == GroupsFor(u)

SuppliesLoadGroups(u, inFlight) ==
    /\ \E ok \in BOOLEAN :
        IF ok
        THEN LET ids == SuppliesLoadGroupsResult(u) IN
             /\ sGroups' = [sGroups EXCEPT ![u] = ids]
             /\ IF ids # {}
                THEN \E first \in ids :
                        /\ sGroups0' = [sGroups0 EXCEPT ![u] = first]
                        /\ SetSelectedGroup(u, first, inFlight)
                ELSE /\ sGroups0' = [sGroups0 EXCEPT ![u] = Empty]
                     /\ toast' = NoToast
                     /\ UNCHANGED <<selectedGroup, sTagLoads, sTags>>
        ELSE /\ toast' = Destructive
             /\ UNCHANGED <<sGroups, sGroups0, selectedGroup, sTagLoads, sTags>>
    /\ UNCHANGED <<dbVars, gVars, tVars, sSupplies, sFormVars, sSubmitVars,
                   sLoadVars, dVars, aVars>>

\* a loadTags request in flight is answered
SuppliesLoadTags(u, gid) ==
    /\ gid \in sTagLoads[u]
    /\ sTagLoads' = [sTagLoads EXCEPT ![u] = @ \ {gid}]
    /\ SuppliesLoadTagsResponse(u, gid)
    /\ UNCHANGED <<dbVars, gVars, tVars, sGroups, sGroups0, sSupplies, selectedGroup,
                   sFormVars, sSubmitVars, sLoadVars, dVars, aVars>>

\* loadSupplies, first query: the caller's group ids; its error is not read,
\* so a failed query gives no group ids.  With no group ids it returns.
SuppliesLoadSuppliesGroupIdsResponse(u, ok) ==
    /\ sLoadPc[u] = "idle"
    /\ LET groupIds == IF ok THEN GroupsFor(u) ELSE {} IN
       IF groupIds = {}
       THEN UNCHANGED <<sLoadPc, sLoadGroupIds>>
       ELSE /\ sLoadPc' = [sLoadPc EXCEPT ![u] = "supplies"]
            /\ sLoadGroupIds' = [sLoadGroupIds EXCEPT ![u] = groupIds]
    /\ toast' = NoToast
    /\ UNCHANGED <<dbVars, gVars, tVars, sListVars, sFormVars, sSubmitVars, dVars, aVars>>

\* the request succeeds or fails
SuppliesLoadSuppliesGroupIds(u) ==
    \E ok \in BOOLEAN : SuppliesLoadSuppliesGroupIdsResponse(u, ok)

\* the rows of the second query: .in('group_id', groupIds)
SuppliesIn(groupIds) == { s \in supplies : s.group_id \in groupIds }
ListRow(s) ==
    [id |-> s.id, quantity |-> s.quantity, cost |-> s.cost, sale_price |-> s.sale_price,
     market_price |-> s.market_price, tag_id |-> s.tag_id, group_id |-> s.group_id,
     created_at |-> s.created_at]

\* an order that puts the oldest row first
CreatedAtAscending(a, b) == a.created_at < b.created_at

\* .order('created_at', { ascending: false }): a comes before b.  created_at
\* is the time of the insert, which differs from row to row.
CreatedAtOrder(a, b) == a.created_at > b.created_at

NewestFirst(rows) ==
    CHOOSE seq \in OrderingsOf(rows) :
        \A i, j \in 1..Len(seq) : i < j => CreatedAtOrder(seq[i], seq[j])

\* loadSupplies, second query for groupIds, and setSupplies
SuppliesLoadSuppliesEffect(u, groupIds) ==
    /\ \E ok \in BOOLEAN :
        IF ok
        THEN /\ sSupplies' = [sSupplies EXCEPT ![u] =
                    NewestFirst({ ListRow(s) : s \in SuppliesIn(groupIds) })]
             /\ toast' = NoToast
        ELSE /\ toast' = Destructive
             /\ UNCHANGED sSupplies
    /\ UNCHANGED <<dbVars, gVars, tVars, sGroups, sGroups0, sTags, selectedGroup,
                   sTagLoads, sFormVars, sSubmitVars, dVars, aVars>>

SuppliesLoadSuppliesRows(u) ==
    /\ sLoadPc[u] = "supplies"
    /\ SuppliesLoadSuppliesEffect(u, sLoadGroupIds[u])
    /\ sLoadPc' = [sLoadPc EXCEPT ![u] = "idle"]
    /\ sLoadGroupIds' = [sLoadGroupIds EXCEPT ![u] = {}]

\* loadSupplies with no step of another session between its two queries
SuppliesLoadSupplies(u) ==
    /\ sLoadPc[u] = "idle"
    /\ \E ok \in BOOLEAN :
        LET groupIds == IF ok THEN GroupsFor(u) ELSE {} IN
        IF groupIds = {}
        THEN /\ toast' = NoToast
             /\ UNCHANGED <<dbVars, gVars, tVars, sListVars, sFormVars, sSubmitVars, dVars, aVars>>
        ELSE SuppliesLoadSuppliesEffect(u, groupIds)
    /\ UNCHANGED sLoadVars

\* a reset of the form's fields that leaves editingId as it is
resetFormKeepingEditingId(u, g0) ==
    /\ fTagId' = [fTagId EXCEPT ![u] = Empty]
    /\ fGroupId' = [fGroupId EXCEPT ![u] = g0]
    /\ UNCHANGED editingId

\* resetForm, with groups[0]?.id || '' of the groups the caller closed over
resetForm(u, g0) ==
    /\ editingId' = [editingId EXCEPT ![u] = Null]
    /\ fTagId' = [fTagId EXCEPT ![u] = Empty]
    /\ fGroupId' = [fGroupId EXCEPT ![u] = g0]

\* 'Nuevo Insumo' and 'Crear Primer Insumo': both need groups.length > 0
SuppliesOpenDialog(u) ==
    /\ ~sIsDialogOpen[u]
    /\ sGroups[u] # {}
    /\ sIsDialogOpen' = [sIsDialogOpen EXCEPT ![u] = TRUE]
    /\ toast' = NoToast
    /\ UNCHANGED <<dbVars, gVars, tVars, sListVars, editingId, fGroupId, fTagId,
                   sSubmitVars, sLoadVars, dVars, aVars>>

\* onOpenChange(false): close and resetForm
SuppliesCloseDialog(u) ==
    /\ sIsDialogOpen[u]
    /\ sIsDialogOpen' = [sIsDialogOpen EXCEPT ![u] = FALSE]
    /\ resetForm(u, sGroups0[u])
    /\ toast' = NoToast
    /\ UNCHANGED <<dbVars, gVars, tVars, sListVars, sSubmitVars, sLoadVars, dVars, aVars>>

\* the group selector of the form
SuppliesSelectGroup(u, gid, inFlight) ==
    /\ sIsDialogOpen[u]
    /\ gid \in sGroups[u]
    /\ fGroupId' = [fGroupId EXCEPT ![u] = gid]
    /\ SetSelectedGroup(u, gid, inFlight)
    /\ UNCHANGED <<dbVars, gVars, tVars, sGroups, sGroups0, sSupplies,
                   sIsDialogOpen, editingId, fTagId, sSubmitVars, sLoadVars, dVars, aVars>>

\* the tag selector of the form: the entries are the loaded tags
SuppliesSelectTag(u, tid) ==
    /\ sIsDialogOpen[u]
    /\ tid \in sTags[u]
    /\ fTagId' = [fTagId EXCEPT ![u] = tid]
    /\ toast' = NoToast
    /\ UNCHANGED <<dbVars, gVars, tVars, sListVars, sIsDialogOpen, editingId,
                   fGroupId, sSubmitVars, sLoadVars, dVars, aVars>>

\* the table is rendered when groups and supplies are not empty, and the
\* open (modal) dialog covers it
SuppliesTableReachable(u) == ~sIsDialogOpen[u] /\ sGroups[u] # {}

\* the attributes of the form's inputs: name is required, the four numeric
\* inputs are required with min="0"
SuppliesInputsValid(name, v) ==
    /\ name # ""
    /\ v.quantity >= 0 /\ v.cost >= 0 /\ v.sale_price >= 0 /\ v.market_price >= 0

\* handleEdit(supply)
SuppliesHandleEdit(u, row, inFlight) ==
    /\ SuppliesTableReachable(u)
    /\ row \in Range(sSupplies[u])
    /\ editingId' = [editingId EXCEPT ![u] = row.id]
    /\ fTagId' = [fTagId EXCEPT ![u] = OrEmpty(row.tag_id)]
    /\ fGroupId' = [fGroupId EXCEPT ![u] = row.group_id]
    /\ SetSelectedGroup(u, row.group_id, inFlight)
    /\ sIsDialogOpen' = [sIsDialogOpen EXCEPT ![u] = TRUE]
    /\ UNCHANGED <<dbVars, gVars, tVars, sGroups, sGroups0, sSupplies,
                   sSubmitVars, sLoadVars, dVars, aVars>>

\* the request handleSubmit builds from the form: update when editingId is
\* set, else insert; groups0 is groups[0] as its closure holds it
SuppliesRequestOf(u) ==
    [kind |-> IF editingId[u] # Null THEN "update" ELSE "insert",
     id |-> editingId[u],
     tag_id |-> OrNull(fTagId[u]),
     group_id |-> fGroupId[u],
     groups0 |-> sGroups0[u]]

SuppliesCanSubmit(u) ==
    /\ sIsDialogOpen[u]
    /\ ~sIsSubmitting[u]
    /\ sPc[u] = "idle"
    /\ editingId[u] = Null => nextSupplyId <= MaxSupplies

\* handleSubmit up to its await
SuppliesSubmitStart(u) ==
    /\ SuppliesCanSubmit(u)
    /\ sIsSubmitting' = [sIsSubmitting EXCEPT ![u] = TRUE]
    /\ sReq' = [sReq EXCEPT ![u] = SuppliesRequestOf(u)]
    /\ sPc' = [sPc EXCEPT ![u] = "request"]
    /\ toast' = NoToast
    /\ UNCHANGED <<dbVars, gVars, tVars, sListVars, sFormVars, sLoadVars, dVars, aVars>>

\* the fields both requests send
SupplyFields(req, name, v) ==
    [name |-> name, quantity |-> v.quantity, cost |-> v.cost,
     sale_price |-> v.sale_price, market_price |-> v.market_price,
     tag_id |-> req.tag_id, group_id |-> req.group_id]

UpdatedRow(s, f) ==
    [s EXCEPT !.name = f.name, !.quantity = f.quantity, !.cost = f.cost,
              !.sale_price = f.sale_price, !.market_price = f.market_price,
              !.tag_id = f.tag_id, !.group_id = f.group_id]

InsertedRow(u, f) ==
    [id |-> nextSupplyId, name |-> f.name, quantity |-> f.quantity, cost |-> f.cost,
     sale_price |-> f.sale_price, market_price |-> f.market_price,
     tag_id |-> f.tag_id, group_id |-> f.group_id, created_by |-> u,
     created_at |-> nextSupplyId]

\* the request req of handleSubmit at the store, and what follows it
SuppliesSubmitEffect(u, req, name, v) ==
    /\ req.kind = "insert" => nextSupplyId <= MaxSupplies
    /\ LET f == SupplyFields(req, name, v) IN
       \E ok \in BOOLEAN :
        IF ok /\ FkGroup(f.group_id) /\ FkTag(f.tag_id)
        THEN /\ IF req.kind = "update"
                THEN /\ supplies' = { IF s.id = req.id THEN UpdatedRow(s, f) ELSE s :
                                      s \in supplies }
                     /\ toast' = Default
                     /\ UNCHANGED nextSupplyId
                ELSE /\ supplies' = supplies \cup {InsertedRow(u, f)}
                     /\ nextSupplyId' = nextSupplyId + 1
                     /\ toast' = Default
             /\ sIsDialogOpen' = [sIsDialogOpen EXCEPT ![u] = FALSE]
             /\ resetForm(u, req.groups0)
        ELSE /\ toast' = Destructive
             /\ UNCHANGED <<supplies, nextSupplyId, sFormVars>>
    /\ UNCHANGED <<groups, user_groups, tags, nextGroupId, nextTagId,
                   gVars, tVars, sListVars, sLoadVars, dVars, aVars>>

\* handleSubmit from its await on
SuppliesSubmitRequest(u, name, v) ==
    /\ sPc[u] = "request"
    /\ SuppliesSubmitEffect(u, sReq[u], name, v)
    /\ sIsSubmitting' = [sIsSubmitting EXCEPT ![u] = FALSE]
    /\ sPc' = [sPc EXCEPT ![u] = "idle"]
    /\ sReq' = [sReq EXCEPT ![u] = NoSupplyReq]

\* handleSubmit with no other step of its page between start and response
SuppliesHandleSubmit(u, name, v) ==
    /\ SuppliesCanSubmit(u)
    /\ SuppliesSubmitEffect(u, SuppliesRequestOf(u), name, v)
    /\ UNCHANGED sSubmitVars

\* handleDelete(id): delete from supplies where id = id
SuppliesHandleDelete(u, sid) ==
    /\ SuppliesTableReachable(u)
    /\ \E row \in Range(sSupplies[u]) : row.id = sid
    /\ \E ok \in BOOLEAN :
        IF ok
        THEN /\ supplies' = { s \in supplies : s.id # sid }
             /\ toast' = Default
        ELSE /\ toast' = Destructive
             /\ UNCHANGED supplies
    /\ UNCHANGED <<groups, user_groups, tags, nextGroupId, nextTagId, nextSupplyId,
                   gVars, tVars, sVars, dVars, aVars>>

\* a margin taken on the market price instead of the sale price
calculateProfitOnMarketPrice(s) == (s.market_price - s.cost) * s.quantity

\* calculateProfit(supply) of the supplies table
calculateProfit(s) == (s.sale_price - s.cost) * s.quantity

\* ---------------------------------------------------------- Dashboard page
ZeroStats == [totalSupplies |-> 0, totalGroups |-> 0, totalTags |-> 0, totalProfit |-> 0]

\* the term loadStats adds for each supply
ProfitTerm(s) == (s.sale_price - s.cost) * s.quantity

RECURSIVE SumProfit(_)
SumProfit(S) ==
    IF S = {} THEN 0
    ELSE LET s == CHOOSE x \in S : TRUE IN ProfitTerm(s) + SumProfit(S \ {s})

NoSuppliesResult == [length |-> 0, totalProfit |-> 0]

\* loadStats, first query: the user's group ids (the error is not read: a
\* failed query gives none); with no group ids loadStats returns.  The [user]
\* effect starts it, at mount and whenever the user object is replaced.
DashboardLoadGroupIdsResponse(u, ok) ==
    /\ dPc[u] \in {"idle", "done"}
    /\ LET groupIds == IF ok THEN GroupsFor(u) ELSE {} IN
       /\ dGroupIds' = [dGroupIds EXCEPT ![u] = groupIds]
       /\ dPc' = [dPc EXCEPT ![u] = IF groupIds = {} THEN "done" ELSE "supplies"]
    /\ toast' = NoToast
    /\ UNCHANGED <<dbVars, gVars, tVars, sVars, dSupplies, dGroupsCount, stats, aVars>>

\* the first query succeeds or fails
DashboardLoadGroupIds(u) == \E ok \in BOOLEAN : DashboardLoadGroupIdsResponse(u, ok)

\* second query: sale_price, cost, quantity of the supplies of those groups
DashboardLoadSuppliesResponse(u, ok) ==
    /\ dPc[u] = "supplies"
    /\ dSupplies' = [dSupplies EXCEPT ![u] =
           IF ok
           THEN [length |-> Cardinality(SuppliesIn(dGroupIds[u])),
                 totalProfit |-> SumProfit(SuppliesIn(dGroupIds[u]))]
           ELSE NoSuppliesResult]
    /\ dPc' = [dPc EXCEPT ![u] = "groups"]
    /\ toast' = NoToast
    /\ UNCHANGED <<dbVars, gVars, tVars, sVars, dGroupIds, dGroupsCount, stats, aVars>>

\* the second query succeeds or fails
DashboardLoadSupplies(u) == \E ok \in BOOLEAN : DashboardLoadSuppliesResponse(u, ok)

\* third query: count of the groups with those ids
DashboardCountGroupsResponse(u, ok) ==
    /\ dPc[u] = "groups"
    /\ dGroupsCount' = [dGroupsCount EXCEPT ![u] =
           IF ok THEN Cardinality({ g \in groups : g.id \in dGroupIds[u] }) ELSE 0]
    /\ dPc' = [dPc EXCEPT ![u] = "tags"]
    /\ toast' = NoToast
    /\ UNCHANGED <<dbVars, gVars, tVars, sVars, dGroupIds, dSupplies, stats, aVars>>

\* the third query succeeds or fails
DashboardCountGroups(u) == \E ok \in BOOLEAN : DashboardCountGroupsResponse(u, ok)

\* fourth query: count of the tags of those groups; then setStats
DashboardCountTagsResponse(u, ok) ==
    /\ dPc[u] = "tags"
    /\ LET tagsCount ==
               IF ok THEN Cardinality({ t \in tags : t.group_id \in dGroupIds[u] }) ELSE 0
       IN stats' = [stats EXCEPT ![u] =
               [totalSupplies |-> dSupplies[u].length,
                totalGroups |-> dGroupsCount[u],
                totalTags |-> tagsCount,
                totalProfit |-> dSupplies[u].totalProfit]]
    /\ dPc' = [dPc EXCEPT ![u] = "done"]
    /\ dSupplies' = [dSupplies EXCEPT ![u] = NoSuppliesResult]
    /\ dGroupsCount' = [dGroupsCount EXCEPT ![u] = 0]
    /\ toast' = NoToast
    /\ UNCHANGED <<dbVars, gVars, tVars, sVars, dGroupIds, aVars>>

\* the fourth query succeeds or fails
DashboardCountTags(u) == \E ok \in BOOLEAN : DashboardCountTagsResponse(u, ok)

\* ------------------------------------------------------------ specifications
\* every user is signed in and the auth context has finished loading
SignedIn ==
    /\ user = [u \in Users |-> u]
    /\ loading = [u \in Users |-> FALSE]
    /\ location = [u \in Users |-> "/groups"]

Init ==
    /\ groups = {} /\ user_groups = {} /\ tags = {} /\ supplies = {}
    /\ nextGroupId = 1 /\ nextTagId = 1 /\ nextSupplyId = 1
    /\ toast = NoToast
    /\ gPc = [u \in Users |-> "idle"]
    /\ gReq = [u \in Users |-> NoReq]
    /\ gIsSubmitting = [u \in Users |-> FALSE]
    /\ gGroups = [u \in Users |-> {}]
    /\ tPc = [u \in Users |-> "idle"]
    /\ tReq = [u \in Users |-> NoTagReq]
    /\ tIsSubmitting = [u \in Users |-> FALSE]
    /\ tGroups = [u \in Users |-> {}]
    /\ tTags = [u \in Users |-> <<>>]
    /\ sGroups = [u \in Users |-> {}]
    /\ sGroups0 = [u \in Users |-> Empty]
    /\ sTags = [u \in Users |-> {}]
    /\ sSupplies = [u \in Users |-> <<>>]
    /\ selectedGroup = [u \in Users |-> Empty]
    /\ sTagLoads = [u \in Users |-> {}]
    /\ sIsDialogOpen = [u \in Users |-> FALSE]
    /\ editingId = [u \in Users |-> Null]
    /\ fGroupId = [u \in Users |-> Empty]
    /\ fTagId = [u \in Users |-> Empty]
    /\ sPc = [u \in Users |-> "idle"]
    /\ sReq = [u \in Users |-> NoSupplyReq]
    /\ sIsSubmitting = [u \in Users |-> FALSE]
    /\ sLoadPc = [u \in Users |-> "idle"]
    /\ sLoadGroupIds = [u \in Users |-> {}]
    /\ dPc = [u \in Users |-> "idle"]
    /\ dGroupIds = [u \in Users |-> {}]
    /\ dSupplies = [u \in Users |-> NoSuppliesResult]
    /\ dGroupsCount = [u \in Users |-> 0]
    /\ stats = [u \in Users |-> ZeroStats]
    /\ SignedIn

\* The steps of a page's session, with the values its forms are submitted with
GroupsWrites(u, names) ==
    \/ \E name \in names : GroupsSubmitStart(u, name)
    \/ GroupsInsertGroup(u)
    \/ GroupsInsertMember(u)
    \/ \E gid \in GroupIds : GroupsHandleDelete(u, gid)

TagsWrites(u, names) ==
    \/ TagsLoadGroups(u)
    \/ \E gid \in GroupIds \cup {Empty}, name \in names : TagsHandleSubmit(u, gid, name)

TagsReads(u) ==
    \/ TagsLoadGroups(u)
    \/ TagsLoadTags(u)

\* the supplies table and its dialog: create, edit, update, delete
SuppliesWrites(u, names, values) ==
    \/ SuppliesLoadGroups(u, FALSE)
    \/ SuppliesLoadSupplies(u)
    \/ SuppliesOpenDialog(u)
    \/ SuppliesCloseDialog(u)
    \/ \E row \in Range(sSupplies[u]) : SuppliesHandleEdit(u, row, FALSE)
    \/ \E name \in names, v \in values : SuppliesHandleSubmit(u, name, v)
    \/ \E sid \in SupplyIds : SuppliesHandleDelete(u, sid)

\* the selectors of the supplies form, with the tag loads they start in flight
SuppliesForm(u, names, values) ==
    \/ SuppliesLoadGroups(u, TRUE)
    \/ \E gid \in GroupIds : SuppliesLoadTags(u, gid)
    \/ SuppliesOpenDialog(u)
    \/ \E gid \in GroupIds : SuppliesSelectGroup(u, gid, TRUE)
    \/ \E tid \in TagIds : SuppliesSelectTag(u, tid)
    \/ \E name \in names, v \in values : SuppliesHandleSubmit(u, name, v)

DashboardLoadStats(u) ==
    \/ DashboardLoadGroupIds(u)
    \/ DashboardLoadSupplies(u)
    \/ DashboardCountGroups(u)
    \/ DashboardCountTags(u)

\* u1 on the Groups and Supplies pages, u2 on the Tags page and deleting groups
Next ==
    \/ GroupsWrites("u1", {"n"})
    \/ \E gid \in GroupIds : GroupsHandleDelete("u2", gid)
    \/ TagsWrites("u2", {"n"})
    \/ SuppliesWrites("u1", {"n"}, {ZeroValues})

Spec == Init /\ [][Next]_vars

\* u1 creates groups and tags and fills in the supplies form
NextForm ==
    \/ \E name \in {"n"} : GroupsSubmitStart("u1", name)
    \/ GroupsInsertGroup("u1")
    \/ GroupsInsertMember("u1")
    \/ TagsWrites("u1", {"n"})
    \/ SuppliesForm("u1", {"n"}, {ZeroValues})

SpecForm == Init /\ [][NextForm]_vars

\* u1 watches the dashboard while groups and supplies are written
NextDashboard ==
    \/ GroupsWrites("u1", {"n"})
    \/ SuppliesLoadGroups("u1", FALSE)
    \/ SuppliesOpenDialog("u1")
    \/ SuppliesCloseDialog("u1")
    \/ \E v \in ValueSets : SuppliesHandleSubmit("u1", "n", v)
    \/ DashboardLoadStats("u1")

SpecDashboard == Init /\ [][NextDashboard]_vars

\* u1 writes groups and tags, both users read on the Tags page
NextReads ==
    \/ GroupsWrites("u1", {"n"})
    \/ \E gid \in GroupIds \cup {Empty} : TagsHandleSubmit("u1", gid, "n")
    \/ \E u \in Users : TagsReads(u)

SpecReads == Init /\ [][NextReads]_vars

\* both users create groups and supplies; u1 deletes groups and loads the
\* supplies list, its two queries apart
SuppliesCreates(u, names, values) ==
    \/ SuppliesLoadGroups(u, FALSE)
    \/ SuppliesOpenDialog(u)
    \/ SuppliesCloseDialog(u)
    \/ \E name \in names, v \in values : SuppliesHandleSubmit(u, name, v)

NextList ==
    \/ \E u \in Users :
          \/ GroupsSubmitStart(u, "n")
          \/ GroupsInsertGroup(u)
          \/ GroupsInsertMember(u)
          \/ SuppliesCreates(u, {"n"}, {ZeroValues})
    \/ \E gid \in GroupIds : GroupsHandleDelete("u1", gid)
    \/ SuppliesLoadSuppliesGroupIds("u1")
    \/ SuppliesLoadSuppliesRows("u1")

SpecList == Init /\ [][NextList]_vars

\* u1 creates groups and submits the supplies form with every name and every
\* numeric value its state can hold
NextValidation ==
    \/ GroupsSubmitStart("u1", "n")
    \/ GroupsInsertGroup("u1")
    \/ GroupsInsertMember("u1")
    \/ SuppliesWrites("u1", Names, FormValues)

SpecValidation == Init /\ [][NextValidation]_vars

\* both users create and delete groups
NextGroups == \E u \in Users : GroupsWrites(u, Names) \/ GroupsLoadGroups(u)

SpecGroups == Init /\ [][NextGroups]_vars

\* u1 on the Supplies page: the dialog is opened, closed and submitted, rows
\* are edited, and a submit's request is answered after other steps
NextEdit ==
    \/ GroupsSubmitStart("u1", "n")
    \/ GroupsInsertGroup("u1")
    \/ GroupsInsertMember("u1")
    \/ SuppliesLoadGroups("u1", FALSE)
    \/ SuppliesLoadSupplies("u1")
    \/ SuppliesOpenDialog("u1")
    \/ SuppliesCloseDialog("u1")
    \/ \E row \in Range(sSupplies["u1"]) : SuppliesHandleEdit("u1", row, FALSE)
    \/ SuppliesSubmitStart("u1")
    \/ SuppliesSubmitRequest("u1", "n", ZeroValues)

SpecEdit == Init /\ [][NextEdit]_vars

\* u1 submits the three forms; each handleSubmit is split at its awaits, and
\* every request sent is answered in the end
NextSubmit ==
    \/ GroupsSubmitStart("u1", "n")
    \/ GroupsInsertGroup("u1")
    \/ GroupsInsertMember("u1")
    \/ TagsLoadGroups("u1")
    \/ \E gid \in GroupIds \cup {Empty} : TagsSubmitStart("u1", gid, "n")
    \/ TagsSubmitInsert("u1")
    \/ SuppliesLoadGroups("u1", FALSE)
    \/ SuppliesOpenDialog("u1")
    \/ SuppliesCloseDialog("u1")
    \/ SuppliesSubmitStart("u1")
    \/ SuppliesSubmitRequest("u1", "n", ZeroValues)

RequestsReturn ==
    /\ WF_vars(GroupsInsertGroup("u1"))
    /\ WF_vars(GroupsInsertMember("u1"))
    /\ WF_vars(TagsSubmitInsert("u1"))
    /\ WF_vars(SuppliesSubmitRequest("u1", "n", ZeroValues))

SpecSubmit == Init /\ [][NextSubmit]_vars /\ RequestsReturn

\* ------------------------------------------------------------ authentication
\* the auth context finishes loading, with a session or without one
AuthLoaded(u) ==
    /\ loading[u]
    /\ loading' = [loading EXCEPT ![u] = FALSE]
    /\ \E usr \in {u, NoUser} : user' = [user EXCEPT ![u] = usr]
    /\ toast' = NoToast
    /\ UNCHANGED <<dbVars, gVars, tVars, sVars, dVars, location>>

\* the session ends: signOut() resolves and the context's user becomes null
AuthSignedOut(u) ==
    /\ ~loading[u]
    /\ user[u] # NoUser
    /\ user' = [user EXCEPT ![u] = NoUser]
    /\ toast' = NoToast
    /\ UNCHANGED <<dbVars, gVars, tVars, sVars, dVars, loading, location>>

\* the first effect of a page: if (!loading && !user) navigate('/auth')
NavigateEffect(u) ==
    /\ location[u] # "/auth"
    /\ ~loading[u]
    /\ user[u] = NoUser
    /\ location' = [location EXCEPT ![u] = "/auth"]
    /\ toast' = NoToast
    /\ UNCHANGED <<dbVars, gVars, tVars, sVars, dVars, user, loading>>

\* the second effect of a page: if (user) { load...() }
UserEffect(u, path) == location[u] = path /\ user[u] # NoUser

\* the page at path is past `if (loading) return ...`: its buttons and forms
\* are on the screen
Rendered(u, path) == location[u] = path /\ ~loading[u]

\* u1, who created group 1 in an earlier session, opens the Groups page or the
\* Tags page; the auth context has not loaded yet
InitAuth ==
    /\ groups = {[id |-> 1, name |-> "n", created_by |-> "u1"]}
    /\ user_groups = {[user_id |-> "u1", group_id |-> 1, role |-> "admin", seq |-> 1]}
    /\ tags = {} /\ supplies = {}
    /\ nextGroupId = 2 /\ nextTagId = 1 /\ nextSupplyId = 1
    /\ toast = NoToast
    /\ gPc = [u \in Users |-> "idle"]
    /\ gReq = [u \in Users |-> NoReq]
    /\ gIsSubmitting = [u \in Users |-> FALSE]
    /\ gGroups = [u \in Users |-> {}]
    /\ tPc = [u \in Users |-> "idle"]
    /\ tReq = [u \in Users |-> NoTagReq]
    /\ tIsSubmitting = [u \in Users |-> FALSE]
    /\ tGroups = [u \in Users |-> {}]
    /\ tTags = [u \in Users |-> <<>>]
    /\ sGroups = [u \in Users |-> {}]
    /\ sGroups0 = [u \in Users |-> Empty]
    /\ sTags = [u \in Users |-> {}]
    /\ sSupplies = [u \in Users |-> <<>>]
    /\ selectedGroup = [u \in Users |-> Empty]
    /\ sTagLoads = [u \in Users |-> {}]
    /\ sIsDialogOpen = [u \in Users |-> FALSE]
    /\ editingId = [u \in Users |-> Null]
    /\ fGroupId = [u \in Users |-> Empty]
    /\ fTagId = [u \in Users |-> Empty]
    /\ sPc = [u \in Users |-> "idle"]
    /\ sReq = [u \in Users |-> NoSupplyReq]
    /\ sIsSubmitting = [u \in Users |-> FALSE]
    /\ sLoadPc = [u \in Users |-> "idle"]
    /\ sLoadGroupIds = [u \in Users |-> {}]
    /\ dPc = [u \in Users |-> "idle"]
    /\ dGroupIds = [u \in Users |-> {}]
    /\ dSupplies = [u \in Users |-> NoSuppliesResult]
    /\ dGroupsCount = [u \in Users |-> 0]
    /\ stats = [u \in Users |-> ZeroStats]
    /\ user = [u \in Users |-> NoUser]
    /\ loading = [u \in Users |-> TRUE]
    /\ \E path \in {"/groups", "/tags"} :
            location = [u \in Users |-> IF u = "u1" THEN path ELSE "/auth"]

\* u1 on the page it opened; a request that was sent is answered whatever the
\* route is by then
NextAuth ==
    \/ AuthLoaded("u1")
    \/ AuthSignedOut("u1")
    \/ NavigateEffect("u1")
    \/ UserEffect("u1", "/groups") /\ GroupsLoadGroups("u1")
    \/ Rendered("u1", "/groups") /\ GroupsSubmitStart("u1", "n")
    \/ GroupsInsertGroup("u1")
    \/ GroupsInsertMember("u1")
    \/ UserEffect("u1", "/tags") /\ TagsLoadTags("u1")
    \/ UserEffect("u1", "/tags") /\ TagsLoadGroups("u1")
    \/ Rendered("u1", "/tags") /\
          \E gid \in GroupIds \cup {Empty} : TagsSubmitStart("u1", gid, "n")
    \/ TagsSubmitInsert("u1")

SpecAuth == InitAuth /\ [][NextAuth]_vars

\* u1 creates groups and tags; u2, who creates no group, loads the Tags page
\* and deletes tags
NextTags ==
    \/ \E name \in {"n"} : GroupsSubmitStart("u1", name)
    \/ GroupsInsertGroup("u1")
    \/ GroupsInsertMember("u1")
    \/ TagsWrites("u1", Names)
    \/ TagsLoadTags("u2")
    \/ \E tid \in TagIds : TagsHandleDelete("u2", tid)

SpecTags == Init /\ [][NextTags]_vars

\* the profit of stored supplies: u1 is in group 1, whose supplies hold any of
\* the value sets; the table and the dashboard load them
StoredSupply(sid, v) ==
    [id |-> sid, name |-> "n", quantity |-> v.quantity, cost |-> v.cost,
     sale_price |-> v.sale_price, market_price |-> v.market_price,
     tag_id |-> Null, group_id |-> 1, created_by |-> "u1", created_at |-> sid]

InitProfit ==
    /\ groups = {[id |-> 1, name |-> "n", created_by |-> "u1"]}
    /\ user_groups = {[user_id |-> "u1", group_id |-> 1, role |-> "admin", seq |-> 1]}
    /\ tags = {}
    /\ \E S \in SUBSET SupplyIds : \E f \in [S -> ValueSets] :
            supplies = { StoredSupply(sid, f[sid]) : sid \in S }
    /\ nextGroupId = 2 /\ nextTagId = 1 /\ nextSupplyId = MaxSupplies + 1
    /\ toast = NoToast
    /\ gPc = [u \in Users |-> "idle"]
    /\ gReq = [u \in Users |-> NoReq]
    /\ gIsSubmitting = [u \in Users |-> FALSE]
    /\ gGroups = [u \in Users |-> {}]
    /\ tPc = [u \in Users |-> "idle"]
    /\ tReq = [u \in Users |-> NoTagReq]
    /\ tIsSubmitting = [u \in Users |-> FALSE]
    /\ tGroups = [u \in Users |-> {}]
    /\ tTags = [u \in Users |-> <<>>]
    /\ sGroups = [u \in Users |-> {}]
    /\ sGroups0 = [u \in Users |-> Empty]
    /\ sTags = [u \in Users |-> {}]
    /\ sSupplies = [u \in Users |-> <<>>]
    /\ selectedGroup = [u \in Users |-> Empty]
    /\ sTagLoads = [u \in Users |-> {}]
    /\ sIsDialogOpen = [u \in Users |-> FALSE]
    /\ editingId = [u \in Users |-> Null]
    /\ fGroupId = [u \in Users |-> Empty]
    /\ fTagId = [u \in Users |-> Empty]
    /\ sPc = [u \in Users |-> "idle"]
    /\ sReq = [u \in Users |-> NoSupplyReq]
    /\ sIsSubmitting = [u \in Users |-> FALSE]
    /\ sLoadPc = [u \in Users |-> "idle"]
    /\ sLoadGroupIds = [u \in Users |-> {}]
    /\ dPc = [u \in Users |-> "idle"]
    /\ dGroupIds = [u \in Users |-> {}]
    /\ dSupplies = [u \in Users |-> NoSuppliesResult]
    /\ dGroupsCount = [u \in Users |-> 0]
    /\ stats = [u \in Users |-> ZeroStats]
    /\ SignedIn

NextProfit ==
    \/ SuppliesLoadSupplies("u1")
    \/ DashboardLoadStats("u1")

SpecProfit == InitProfit /\ [][NextProfit]_vars

\* ------------------------------------------------------------------ claims
HasCreatorAdmin(g) ==
    \E m \in user_groups :
        m.group_id = g.id /\ m.user_id = g.created_by /\ m.role = "admin"

\* C1: createGroup is atomic with the creator's membership grant: in every
\* reachable state every stored group has an admin membership of its
\* created_by user, also between the two requests and when the second fails.
C1_CreatorIsAdmin == \A g \in groups : HasCreatorAdmin(g)

CreatedByOther(u, gid) == \E g \in groups : g.id = gid /\ g.created_by # u

\* C2: a delete of a group requested by a user who is not its created_by
\* fails (a destructive notification) and leaves groups, tags, supplies and
\* memberships unchanged, for every call of handleDelete with any group id.
C2_NonCreatorDeleteForbidden ==
    [][\A u \in Users, gid \in GroupIds :
          (CreatedByOther(u, gid) /\ GroupsHandleDelete(u, gid))
              => /\ toast' = Destructive
                 /\ UNCHANGED <<groups, tags, supplies, user_groups>>]_vars

NoRowsOf(gid) ==
    /\ ~GroupExists(gid)
    /\ \A t \in tags : t.group_id # gid
    /\ \A s \in supplies : s.group_id # gid
    /\ \A m \in user_groups : m.group_id # gid

\* C3: when handleDelete of a group reports success, the group, its tags, its
\* supplies and its memberships are gone from the store, and no later step
\* brings a row of that group back, so no later query returns one.
C3_DeleteCascades ==
    [][\A gid \in GroupIds :
          /\ (\E u \in Users : GroupsHandleDelete(u, gid) /\ toast' = Default)
                => NoRowsOf(gid)'
          /\ (gid < nextGroupId /\ NoRowsOf(gid)) => NoRowsOf(gid)']_vars

\* a group was deleted after a tag and a supply had been created, and the
\* delete took them along (the Tags page steps of Spec delete no tag)
C3_Witness ==
    /\ toast = Default
    /\ \E gid \in GroupIds : gid < nextGroupId /\ NoRowsOf(gid)
    /\ nextTagId > 1 /\ tags = {}
    /\ nextSupplyId > 1 /\ supplies = {}

\* C4: in every reachable state, under any interleaving of tag creation,
\* supply creation and update and group deletion by any users, every stored
\* tag and every stored supply has a group_id of an existing group.
C4_OwnedRowsHaveGroup ==
    /\ \A t \in tags : GroupExists(t.group_id)
    /\ \A s \in supplies : GroupExists(s.group_id)

\* a group is gone while a tag and a supply of another group are stored
C4_Witness ==
    /\ \E gid \in GroupIds : gid < nextGroupId /\ ~GroupExists(gid)
    /\ tags # {}
    /\ supplies # {}

\* C5: in every reachable state a supply whose tag_id is set references a tag
\* of the supply's own group, for every sequence of form actions, choosing a
\* tag and then changing the group included.
C5_SupplyTagInOwnGroup ==
    \A s \in supplies :
        s.tag_id # Null =>
            \E t \in tags : t.id = s.tag_id /\ t.group_id = s.group_id

MarketPrices == { v.market_price : v \in ValueSets }

RECURSIVE SumTableProfit(_)
SumTableProfit(S) ==
    IF S = {} THEN 0
    ELSE LET s == CHOOSE x \in S : TRUE IN calculateProfit(s) + SumTableProfit(S \ {s})

\* C6: for every supply shown in the table, the profit is (sale_price - cost)
\* * quantity, negative when cost > sale_price and quantity > 0, the same for
\* every market_price, and equal to the term the dashboard adds; a dashboard
\* query that returned the stored supplies holds the sum of the table's profits.
C6_ProfitFormula ==
    \A u \in Users :
        /\ \A row \in Range(sSupplies[u]) :
            /\ calculateProfit(row) = (row.sale_price - row.cost) * row.quantity
            /\ (row.cost > row.sale_price /\ row.quantity > 0) => calculateProfit(row) < 0
            /\ \A m \in MarketPrices :
                   calculateProfit([row EXCEPT !.market_price = m]) = calculateProfit(row)
            /\ ProfitTerm(row) = calculateProfit(row)
        /\ (dPc[u] = "groups" /\ dSupplies[u].length = Cardinality(supplies))
               => dSupplies[u].totalProfit = SumTableProfit(supplies)

\* the table lists a supply sold under cost and the dashboard has summed the
\* two supplies of the group to a total of 2
C6_Witness ==
    /\ \E row \in Range(sSupplies["u1"]) : row.cost > row.sale_price /\ row.quantity > 0
    /\ dPc["u1"] = "groups"
    /\ dSupplies["u1"] = [length |-> 2, totalProfit |-> 2]

\* C7: the four values of a user's stats describe one and the same stored
\* state of the user's groups, also when others write between the queries.
\* In every stored state supplies and tags lie in existing groups, so stats
\* that count a supply or a tag count at least one group.
C7_StatsDescribeOneState ==
    \A u \in Users :
        (stats[u].totalSupplies > 0 \/ stats[u].totalTags > 0)
            => stats[u].totalGroups > 0

\* C8: loadStats for a user who belongs to zero groups leaves all four stats
\* at zero, whatever the stats held before the load ran.
C8_ZeroGroupsZeroStats ==
    [][\A u \in Users :
          (GroupsFor(u) = {} /\ DashboardLoadGroupIds(u)) => stats'[u] = ZeroStats]_vars

\* C9: every write to a group's tags and supplies is made by a member of the
\* target group: a row that a step adds or changes belongs to a group of which
\* its writer (created_by) is a member; otherwise tags and supplies are unchanged.
C9_WritesByMembersOnly ==
    [][/\ \A t \in tags' \ tags : IsMember(t.group_id, t.created_by)
       /\ \A s \in supplies' \ supplies : IsMember(s.group_id, s.created_by)]_vars

\* C10: the groups, tags and supplies a page has loaded for a user belong only
\* to groups of which that user is a member.
C10_ReadIsolation ==
    \A u \in Users :
        /\ \A gid \in tGroups[u] \cup sGroups[u] : GroupExists(gid) => IsMember(gid, u)
        /\ \A t \in Range(tTags[u]) : GroupExists(t.group_id) => IsMember(t.group_id, u)
        /\ \A row \in Range(sSupplies[u]) :
               GroupExists(row.group_id) => IsMember(row.group_id, u)

\* C11: tag deletion permits any caller to delete any tag by id: for every
\* user and every stored tag, whether or not the user is a member of the
\* tag's group or created the tag, handleDelete can remove the tag and report
\* success.
C11_AnyCallerDeletesAnyTag ==
    \A u \in Users, t \in tags :
        ENABLED (TagsHandleDelete(u, t.id) /\ toast' = Default /\ ~TagExists(t.id)')

\* the Tags page of u2 still lists a tag, of a group that exists and that u2
\* is no member of, which u2's handleDelete has just removed (in SpecTags no
\* other step deletes a tag)
C11_Witness ==
    /\ toast = Default
    /\ \E row \in Range(tTags["u2"]) :
            /\ ~TagExists(row.id)
            /\ GroupExists(row.group_id)
            /\ ~IsMember(row.group_id, "u2")

ListsStoredTags(u) ==
    /\ Range(tTags[u]) = { TagRow(t) : t \in tags }
    /\ Len(tTags[u]) = Cardinality(tags)

\* C12: two loads of the tag list with no write between them return
\* identical sequences: a load that succeeds while the list already holds
\* exactly the stored tags leaves the list as it is, order included.
C12_ListTagsIdempotent ==
    [][\A u \in Users :
          (ListsStoredTags(u) /\ TagsLoadTags(u) /\ toast' = NoToast)
              => tTags'[u] = tTags[u]]_vars

SamePair(m1, m2) == m1.user_id = m2.user_id /\ m1.group_id = m2.group_id

C14_ListSuppliesNewestFirst ==
    [][\A u \in Users :
          /\ (SuppliesLoadSuppliesGroupIds(u) /\ sLoadPc'[u] = "supplies")
                => sLoadGroupIds'[u] = GroupsFor(u)
          /\ (SuppliesLoadSuppliesRows(u) /\ toast' = NoToast)
                => /\ Range(sSupplies'[u]) =
                          { ListRow(s) : s \in SuppliesIn(sLoadGroupIds[u]) }
                   /\ \A row \in Range(sSupplies'[u]) : IsMember(row.group_id, u)
                   /\ \A i, j \in 1..Len(sSupplies'[u]) :
                          i < j => sSupplies'[u][i].created_at > sSupplies'[u][j].created_at]_vars

\* u1's list holds two supplies of two different groups, the newer first
C14_Witness ==
    /\ Len(sSupplies["u1"]) = 2
    /\ sSupplies["u1"][1].created_at > sSupplies["u1"][2].created_at
    /\ sSupplies["u1"][1].group_id # sSupplies["u1"][2].group_id

\* C20: after loadSupplies completes without an error, the displayed list is
\* that of the supplies of the groups the user belongs to at that moment: when
\* the user belongs to no group and loadSupplies runs, the list becomes empty.
C20_ListFollowsMembership ==
    [][\A u \in Users :
          (GroupsFor(u) = {} /\ SuppliesLoadSuppliesGroupIds(u) /\ sLoadPc'[u] = "idle")
              => sSupplies'[u] = <<>>]_vars

\* C15: a delete of a listed tag, a delete of a listed supply and an update
\* of the supply under edit never report success when the id is no longer
\* stored (for example after another session deleted it).
C15_AbsentIdNotFound ==
    [][\A u \in Users :
          /\ \A row \in Range(tTags[u]) :
                (~TagExists(row.id) /\ TagsHandleDelete(u, row.id)) => toast' # Default
          /\ \A row \in Range(sSupplies[u]) :
                (~SupplyExists(row.id) /\ SuppliesHandleDelete(u, row.id))
                    => toast' # Default
          /\ (/\ editingId[u] # Null
              /\ ~SupplyExists(editingId[u])
              /\ \E name \in Names, v \in ValueSets : SuppliesHandleSubmit(u, name, v))
                => toast' # Default]_vars

\* C16: handleSubmit rejects, with an error and no stored change, an empty
\* name or a negative quantity, cost, sale_price or market_price, for every
\* value the form state can hold, so every stored supply has a non-empty name
\* and four numeric fields >= 0.
C16_SuppliesValidated ==
    [][/\ \A u \in Users, name \in Names, v \in FormValues :
             (~SuppliesInputsValid(name, v) /\ SuppliesHandleSubmit(u, name, v))
                 => (toast' = Destructive /\ UNCHANGED supplies)
       /\ \A s \in supplies' : SuppliesInputsValid(s.name, s)]_vars

\* C17: handleSubmit of the Tags page fails with an error and creates no tag
\* when the name is empty or when group_id is not the id of an existing
\* group, the form's initial group_id '' included.
C17_TagsValidated ==
    [][\A u \in Users, gid \in GroupIds \cup {Empty}, name \in Names :
          ((name = "" \/ ~GroupExists(gid)) /\ TagsHandleSubmit(u, gid, name))
              => (toast' = Destructive /\ UNCHANGED tags)]_vars

\* a request of loadStats, or the membership query of loadSupplies, returns an
\* error, and the step is not one that a successful request makes as well
LoadRequestFails(u) ==
    \/ DashboardLoadGroupIdsResponse(u, FALSE) /\ ~DashboardLoadGroupIdsResponse(u, TRUE)
    \/ DashboardLoadSuppliesResponse(u, FALSE) /\ ~DashboardLoadSuppliesResponse(u, TRUE)
    \/ DashboardCountGroupsResponse(u, FALSE) /\ ~DashboardCountGroupsResponse(u, TRUE)
    \/ DashboardCountTagsResponse(u, FALSE) /\ ~DashboardCountTagsResponse(u, TRUE)
    \/ /\ SuppliesLoadSuppliesGroupIdsResponse(u, FALSE)
       /\ ~SuppliesLoadSuppliesGroupIdsResponse(u, TRUE)

\* C18: no error is silently swallowed: a step of a load operation whose
\* backend request returns an error raises the error notification, it does not
\* pass the failure off as an empty or zero result.
C18_NoErrorSwallowed ==
    [][\A u \in Users : LoadRequestFails(u) => toast' = Destructive]_vars

\* C19: createGroup with an empty name is refused by the operation: no group
\* with an empty name is stored, and so no membership of such a group.
C19_EmptyNameRejected ==
    /\ \A g \in groups : g.name # ""
    /\ \A m \in user_groups : \A g \in groups : g.id = m.group_id => g.name # ""

\* C21: in the Supplies form, whenever the dialog is open the form's group_id
\* equals selectedGroup, the group whose tags were requested for the tag
\* selector.
C21_FormGroupIsSelectedGroup ==
    \A u \in Users : sIsDialogOpen[u] => fGroupId[u] = selectedGroup[u]

\* C22: once the tags state holds the tags of the current selectedGroup and
\* no load for that group is in flight, a late loadTags response for an earlier
\* group never overwrites it.
C22_LateTagsResponseDropped ==
    [][\A u \in Users, gid \in GroupIds :
          (/\ gid # selectedGroup[u]
           /\ selectedGroup[u] \notin sTagLoads[u]
           /\ sTags[u] = SuppliesLoadTagsResult(selectedGroup[u])
           /\ SuppliesLoadTags(u, gid)) => UNCHANGED sTags]_vars

\* C23: editingId is non-null only while the dialog is open; opening the dialog
\* with 'Nuevo Insumo' finds it null, it does not change while the dialog stays
\* open, and a submit started with editingId null sends an insert, which adds
\* a supply and changes no stored one.
C23_EditingOnlyWhileOpen ==
    [][\A u \in Users :
          /\ editingId'[u] # Null => sIsDialogOpen'[u]
          /\ SuppliesOpenDialog(u) => editingId'[u] = Null
          /\ (sIsDialogOpen[u] /\ sIsDialogOpen'[u]) => editingId'[u] = editingId[u]
          /\ (editingId[u] = Null /\ SuppliesSubmitStart(u)) => sReq'[u].kind = "insert"
          /\ (sPc[u] = "request" /\ sReq[u].kind = "insert"
                 /\ \E name \in Names, v \in ValueSets : SuppliesSubmitRequest(u, name, v))
                => supplies \subseteq supplies']_vars

\* a listed supply was edited and its update is still on its way; the dialog
\* was closed and opened again with 'Nuevo Insumo', and editingId is null
C23_Witness ==
    /\ sPc["u1"] = "request"
    /\ sReq["u1"].kind = "update"
    /\ sReq["u1"].id \in { s.id : s \in supplies }
    /\ sIsDialogOpen["u1"]
    /\ editingId["u1"] = Null

\* C24: in each form isSubmitting is true from the start of handleSubmit until
\* its last backend request has returned, with success or failure; while it is
\* true no second submit of the form is started; and, every request returning
\* in the end, a form that is submitting stops submitting.
C24_SubmittingIsReset ==
    /\ [](\A u \in Users :
            /\ gIsSubmitting[u] <=> gPc[u] # "idle"
            /\ tIsSubmitting[u] <=> tPc[u] # "idle"
            /\ sIsSubmitting[u] <=> sPc[u] # "idle")
    /\ [][\A u \in Users :
            /\ (gIsSubmitting[u] /\ gPc'[u] = "insertGroup") => UNCHANGED <<gPc, gReq>>
            /\ (tIsSubmitting[u] /\ tPc'[u] = "insert") => UNCHANGED <<tPc, tReq>>
            /\ (sIsSubmitting[u] /\ sPc'[u] = "request") => UNCHANGED <<sPc, sReq>>]_vars
    /\ \A u \in Users :
            /\ gIsSubmitting[u] ~> ~gIsSubmitting[u]
            /\ tIsSubmitting[u] ~> ~tIsSubmitting[u]
            /\ sIsSubmitting[u] ~> ~sIsSubmitting[u]

\* the group form is submitting again after an earlier submit of it has
\* returned and reset the flag, while the requests of the tag form and of the
\* supply form have not returned yet
C24_Witness ==
    /\ toast = NoToast
    /\ gIsSubmitting["u1"] /\ gPc["u1"] = "insertGroup" /\ nextGroupId = 2
    /\ tIsSubmitting["u1"] /\ tPc["u1"] = "insert"
    /\ sIsSubmitting["u1"] /\ sPc["u1"] = "request"

\* C25: no create request is sent with an undefined user id: the request a
\* handleSubmit of the Groups page or of the Tags page has under way carries
\* the id of a signed-in user.
C25_NoRequestWithoutUser ==
    \A u \in Users :
        /\ gPc[u] # "idle" => gReq[u].user_id # Undefined
        /\ tPc[u] # "idle" => tReq[u].created_by # Undefined

====
